---- MODULE Spec2Model ----
(***************************************************************************)
(* Model of media::DecryptingAudioDecoder                                  *)
(* (src/media/filters/decrypting_audio_decoder.cc).                        *)
(*                                                                         *)
(* Every public method and every decryptor callback runs on one task       *)
(* runner, so each handler is one atomic action.  The decryptor, the       *)
(* decryptor-ready host and the caller are the environment: the requests   *)
(* the decoder hands them are kept as messages in flight, each carrying    *)
(* whether the weak pointer it was bound with is still valid.              *)
(*                                                                         *)
(* A failed DCHECK/CHECK and a dereference of a NULL pointer end the       *)
(* process: the model records this in crashed and stops.                   *)
(*                                                                         *)
(* Callbacks given to the decoder are wrapped by BindToCurrentLoop, so     *)
(* running one posts it to the task runner; out lists, in order, what the  *)
(* last handler posted and which decryptor methods it called.              *)
(***************************************************************************)
EXTENDS Integers, Sequences, FiniteSets, TLC

\* ---- bounds of the model ------------------------------------------------
MaxFramesPerResponse == 2
MaxFrameId == 3

\* ---- input domains --------------------------------------------------------
BufferTimestamps == {0, 2000}
\* 441 frames at 48000 Hz last 9187.5 microseconds: every odd running total is
\* rounded down.
FrameCounts == {441}
FrameTimestamps == {0, 500000}
SampleRates == {48000}

\* ---- program constants ------------------------------------------------------
\* kNoTimestamp() is the least representable time: it lies below every timestamp
\* by more than any offset the model can reconstruct.
kNoTimestamp == -1000000000
kOutOfSyncThresholdInMilliseconds == 100
kMicrosecondsPerSecond == 1000000

kUninitialized == "kUninitialized"
kDecryptorRequested == "kDecryptorRequested"
kPendingDecoderInit == "kPendingDecoderInit"
kIdle == "kIdle"
kPendingDecode == "kPendingDecode"
kWaitingForKey == "kWaitingForKey"
kDecodeFinished == "kDecodeFinished"
kStopped == "kStopped"

State ==
  {kUninitialized, kDecryptorRequested, kPendingDecoderInit, kIdle,
   kPendingDecode, kWaitingForKey, kDecodeFinished, kStopped}

DecryptorStatus == {"kSuccess", "kNoKey", "kNeedMoreData", "kError"}

VARIABLES
  state_,
  init_cb_,
  decode_cb_,
  reset_cb_,
  set_decryptor_ready_cb_,
  decryptor_,
  pending_buffer_to_decode_,
  key_added_while_decode_pending_,
  queued_audio_frames_,
  timestamp_helper_,
  config_,
  ready_wait,
  init_reqs,
  decrypt_reqs,
  new_key_cb,
  crashed,
  stop_called,
  op,
  out,
  issued,
  fired,
  decode_hist,
  next_frame_id,
  delivered,
  decode_error_reported,
  last_delivered_timestamp,
  base_cleared,
  init_failed,
  outstanding,
  decode_buffer

progVars ==
  <<state_, init_cb_, decode_cb_, reset_cb_, set_decryptor_ready_cb_,
    decryptor_, pending_buffer_to_decode_, key_added_while_decode_pending_,
    queued_audio_frames_, timestamp_helper_, config_>>

envVars == <<ready_wait, init_reqs, decrypt_reqs, new_key_cb>>

obsVars ==
  <<crashed, stop_called, op, out, issued, fired, decode_hist, next_frame_id,
    delivered, decode_error_reported, last_delivered_timestamp, base_cleared, init_failed,
    outstanding, decode_buffer>>

vars == <<progVars, envVars, obsVars>>

\* ---- buffers, frames, configurations ------------------------------------------
NullBuffer == [kind |-> "null", timestamp |-> kNoTimestamp]
EOSBuffer == [kind |-> "eos", timestamp |-> kNoTimestamp]
DataBuffers == [kind : {"data"}, timestamp : BufferTimestamps]
Buffers == DataBuffers \cup {EOSBuffer}

NullFrame ==
  [kind |-> "null", id |-> 0, frame_count |-> 0,
   timestamp |-> kNoTimestamp, duration |-> 0]

CreateEOSBuffer ==
  [kind |-> "eos", id |-> 0, frame_count |-> 0,
   timestamp |-> kNoTimestamp, duration |-> 0]

Configs == [valid : BOOLEAN, encrypted : BOOLEAN, rate : SampleRates]
NoConfig == [valid |-> FALSE, encrypted |-> FALSE, rate |-> 0]

\* ---- AudioTimestampHelper ------------------------------------------------------
NoHelper == [rate |-> 0, base |-> kNoTimestamp, frame_count |-> 0]

NewTimestampHelper(rate) == [rate |-> rate, base |-> kNoTimestamp, frame_count |-> 0]

base_timestamp(h) == h.base

SetBaseTimestamp(h, t) == [h EXCEPT !.base = t, !.frame_count = 0]

ComputeTimestamp(h, n) == (n * kMicrosecondsPerSecond) \div h.rate

GetTimestamp(h) == h.base + ComputeTimestamp(h, h.frame_count)

GetFrameDuration(h, n) ==
  ComputeTimestamp(h, h.frame_count + n) - ComputeTimestamp(h, h.frame_count)

AddFrames(h, n) == [h EXCEPT !.frame_count = h.frame_count + n]

\* ---- events recorded in out ------------------------------------------------------
Ev(name) == [ev |-> name, status |-> "-", frame |-> NullFrame, buffer |-> NullBuffer]
InitCb(status) == [Ev("init_cb") EXCEPT !.status = status]
DecodeCb(status, frame) == [Ev("decode_cb") EXCEPT !.status = status, !.frame = frame]
ResetCb == Ev("reset_cb")
StopCb == Ev("stop_cb")
Output(frame) == [Ev("output") EXCEPT !.frame = frame]
CallDecryptAndDecode(buffer) == [Ev("DecryptAndDecodeAudio") EXCEPT !.buffer = buffer]

Count(events, name) == Cardinality({i \in DOMAIN events : events[i].ev = name})

DeliveredIds(events) ==
  {events[i].frame.id : i \in {j \in DOMAIN events :
      events[j].ev \in {"decode_cb", "output"} /\ events[j].frame.kind = "data"}}

Min(a, b) == IF a < b THEN a ELSE b

\* The timestamps of the decoded frames that events hands to the caller.
DeliveredTimestamps(events) ==
  {events[i].frame.timestamp : i \in {j \in DOMAIN events :
      events[j].ev \in {"decode_cb", "output"} /\ events[j].frame.kind = "data"}}

\* Handler o ran DoReset (lines 375-381) or UpdateDecoderConfig (lines 383-388):
\* the former clears the timestamp base, the latter replaces the helper.
ClearsTimestampBase(o, events) ==
  \/ o.name \in {"Reset", "DeliverFrame"} /\ Count(events, "reset_cb") > 0
  \/ o.name = "FinishInitialization" /\ Count(events, "RegisterNewKeyCB") > 0

\* The operations whose completion callback the caller waits for.
Operations == {"init", "decode", "reset"}

\* The handler that ran last and its arguments; ok is FALSE when it crashed.
Call(name) ==
  [name |-> name, status |-> "-", buffer |-> NullBuffer, frames |-> <<>>,
   config |-> NoConfig, arg |-> FALSE, ok |-> TRUE]

\* The operations whose callback is owed, oldest first, once issued_op joins them.
IssueOrder(issued_op) ==
  IF issued_op \in Operations THEN Append(outstanding, issued_op) ELSE outstanding

\* What is still owed after the callbacks in events have run.
StillOutstanding(order, events) ==
  SelectSeq(order, LAMBDA k : Count(events, k \o "_cb") = 0)

\* Bookkeeping common to every handler: o is the handler that ran, events what
\* it posted and called, issued the operation (if any) it accepted.
Observe(o, events, issued_op) ==
  /\ op' = o
  /\ out' = events
  /\ delivered' = delivered \cup DeliveredIds(events)
  /\ decode_error_reported' =
       (decode_error_reported
          \/ \E i \in DOMAIN events :
               events[i].ev = "decode_cb" /\ events[i].status = "kDecodeError")
  /\ last_delivered_timestamp' =
       (IF DeliveredTimestamps(events) = {} THEN last_delivered_timestamp
        ELSE CHOOSE t \in DeliveredTimestamps(events) :
               \A u \in DeliveredTimestamps(events) : u <= t)
  /\ base_cleared' =
       (base_cleared \/ (delivered # {} /\ ClearsTimestampBase(o, events)))
  \* the latest answer to an initialization was a failure, and Stop has not
  \* been called since
  /\ init_failed' =
       (IF o.name = "Stop" THEN FALSE
        ELSE IF o.name \in {"SetDecryptor", "FinishInitialization"}
        THEN \E i \in DOMAIN events :
               events[i] = InitCb("DECODER_ERROR_NOT_SUPPORTED")
        ELSE init_failed)
  /\ issued' = issued \cup ({issued_op} \cap Operations)
  /\ outstanding' = StillOutstanding(IssueOrder(issued_op), events)
  \* the buffer the caller passed to the Decode whose callback is owed
  /\ decode_buffer' =
       (IF Count(events, "decode_cb") > 0 THEN NullBuffer
        ELSE IF issued_op = "decode" THEN o.buffer
        ELSE decode_buffer)
  /\ fired' = [k \in Operations |->
                 Min(2, (IF k = issued_op THEN 0 ELSE fired[k])
                        + Count(events, k \o "_cb"))]

\* A failed DCHECK/CHECK or a NULL dereference inside handler o.
Crash(o) ==
  /\ crashed' = TRUE
  /\ op' = [o EXCEPT !.ok = FALSE]
  /\ out' = <<>>
  /\ UNCHANGED <<progVars, envVars, stop_called, issued, fired, decode_hist,
                 next_frame_id, delivered, decode_error_reported,
                 last_delivered_timestamp, base_cleared, init_failed,
                 outstanding, decode_buffer>>

Kill(reqs) == [i \in DOMAIN reqs |-> [reqs[i] EXCEPT !.live = FALSE]]

Init ==
  /\ state_ = kUninitialized
  /\ init_cb_ = FALSE
  /\ decode_cb_ = FALSE
  /\ reset_cb_ = FALSE
  /\ set_decryptor_ready_cb_ = TRUE
  /\ decryptor_ = FALSE
  /\ pending_buffer_to_decode_ = NullBuffer
  /\ key_added_while_decode_pending_ = FALSE
  /\ queued_audio_frames_ = <<>>
  /\ timestamp_helper_ = NoHelper
  /\ config_ = NoConfig
  /\ ready_wait = <<>>
  /\ init_reqs = <<>>
  /\ decrypt_reqs = <<>>
  /\ new_key_cb = "none"
  /\ crashed = FALSE
  /\ stop_called = FALSE
  /\ op = Call("ctor")
  /\ out = <<>>
  /\ issued = {}
  /\ fired = [k \in Operations |-> 0]
  /\ decode_hist = "none"
  /\ next_frame_id = 1
  /\ delivered = {}
  /\ decode_error_reported = FALSE
  /\ last_delivered_timestamp = kNoTimestamp
  /\ base_cleared = FALSE
  /\ init_failed = FALSE
  /\ outstanding = <<>>
  /\ decode_buffer = NullBuffer

\* ---- Initialize (lines 50-84) and InitializeDecoder (lines 228-246) ---------------
\* Initialize that lets a config through that is not flagged as encrypted.
InitializeRejection_AcceptsClear(config) ==
  IF ~config.valid THEN "PIPELINE_ERROR_DECODE" ELSE "-"

InitializeRejection(config) ==
  IF ~config.valid THEN "PIPELINE_ERROR_DECODE"
  ELSE IF ~config.encrypted THEN "DECODER_ERROR_NOT_SUPPORTED"
  ELSE "-"

\* Initialize that asks for the decryptor again on every call.
FirstInitialization_Always == TRUE

\* Line 74: the decryptor has not been asked for yet.
FirstInitialization == state_ = kUninitialized

\* The caller keeps at most one Initialize outstanding (it waits for status_cb).
Initialize(config) ==
  /\ ~crashed
  /\ ~init_cb_
  /\ LET o == [Call("Initialize") EXCEPT !.config = config] IN
     IF decode_cb_ \/ reset_cb_ THEN Crash(o)
     ELSE IF InitializeRejection(config) # "-" THEN
       /\ Observe(o, <<InitCb(InitializeRejection(config))>>, "init")
       /\ UNCHANGED <<progVars, envVars, crashed, stop_called, decode_hist, next_frame_id>>
     ELSE IF FirstInitialization THEN
       /\ config_' = config
       /\ state_' = kDecryptorRequested
       /\ init_cb_' = TRUE
       /\ ready_wait' = Append(ready_wait, [live |-> TRUE])
       /\ Observe(o, <<Ev("SetDecryptorReadyCB")>>, "init")
       /\ UNCHANGED <<decode_cb_, reset_cb_, set_decryptor_ready_cb_, decryptor_,
                      pending_buffer_to_decode_, key_added_while_decode_pending_,
                      queued_audio_frames_, timestamp_helper_, init_reqs,
                      decrypt_reqs, new_key_cb, crashed, stop_called, decode_hist,
                      next_frame_id>>
     ELSE IF ~decryptor_ THEN Crash(o)
     ELSE
       /\ config_' = config
       /\ state_' = kPendingDecoderInit
       /\ init_cb_' = TRUE
       /\ init_reqs' = Append(init_reqs, [live |-> TRUE])
       /\ Observe(o, <<Ev("DeinitializeDecoder"), Ev("InitializeAudioDecoder")>>, "init")
       /\ UNCHANGED <<decode_cb_, reset_cb_, set_decryptor_ready_cb_, decryptor_,
                      pending_buffer_to_decode_, key_added_while_decode_pending_,
                      queued_audio_frames_, timestamp_helper_, ready_wait,
                      decrypt_reqs, new_key_cb, crashed, stop_called, decode_hist,
                      next_frame_id>>

\* An initialization failure that leaves the decoder where it was.
InitFailedState_PendingDecoderInit == kPendingDecoderInit

\* Lines 219 and 258: a failed initialization ends in kStopped, for want of an
\* error state.
InitFailedState == kStopped

\* ---- SetDecryptor (lines 207-226) -------------------------------------------------
SetDecryptor(decryptor) ==
  /\ ~crashed
  /\ ready_wait # <<>> /\ Head(ready_wait).live
  /\ LET o == [Call("SetDecryptor") EXCEPT !.arg = decryptor] IN
     IF state_ # kDecryptorRequested \/ ~init_cb_ \/ ~set_decryptor_ready_cb_
     THEN Crash(o)
     ELSE IF ~decryptor THEN
       /\ set_decryptor_ready_cb_' = FALSE
       /\ init_cb_' = FALSE
       /\ state_' = InitFailedState
       /\ ready_wait' = Tail(ready_wait)
       /\ Observe(o, <<InitCb("DECODER_ERROR_NOT_SUPPORTED")>>, "-")
       /\ UNCHANGED <<decode_cb_, reset_cb_, decryptor_, pending_buffer_to_decode_,
                      key_added_while_decode_pending_, queued_audio_frames_,
                      timestamp_helper_, config_, init_reqs, decrypt_reqs,
                      new_key_cb, crashed, stop_called, decode_hist, next_frame_id>>
     ELSE
       /\ set_decryptor_ready_cb_' = FALSE
       /\ decryptor_' = TRUE
       /\ state_' = kPendingDecoderInit
       /\ ready_wait' = Tail(ready_wait)
       /\ init_reqs' = Append(init_reqs, [live |-> TRUE])
       /\ Observe(o, <<Ev("InitializeAudioDecoder")>>, "-")
       /\ UNCHANGED <<init_cb_, decode_cb_, reset_cb_, pending_buffer_to_decode_,
                      key_added_while_decode_pending_, queued_audio_frames_,
                      timestamp_helper_, config_, decrypt_reqs, new_key_cb,
                      crashed, stop_called, decode_hist, next_frame_id>>

\* ---- FinishInitialization (lines 248-272), UpdateDecoderConfig (lines 383-388) ------
FinishInitialization(success) ==
  /\ ~crashed
  /\ init_reqs # <<>> /\ Head(init_reqs).live
  /\ LET o == [Call("FinishInitialization") EXCEPT !.arg = success] IN
     IF state_ # kPendingDecoderInit \/ ~init_cb_ \/ reset_cb_ \/ decode_cb_
     THEN Crash(o)
     ELSE IF ~success THEN
       /\ init_cb_' = FALSE
       /\ state_' = InitFailedState
       /\ init_reqs' = Tail(init_reqs)
       /\ Observe(o, <<InitCb("DECODER_ERROR_NOT_SUPPORTED")>>, "-")
       /\ UNCHANGED <<decode_cb_, reset_cb_, set_decryptor_ready_cb_, decryptor_,
                      pending_buffer_to_decode_, key_added_while_decode_pending_,
                      queued_audio_frames_, timestamp_helper_, config_, ready_wait,
                      decrypt_reqs, new_key_cb, crashed, stop_called, decode_hist,
                      next_frame_id>>
     ELSE
       /\ timestamp_helper_' = NewTimestampHelper(config_.rate)
       /\ new_key_cb' = "live"
       /\ state_' = kIdle
       /\ init_cb_' = FALSE
       /\ init_reqs' = Tail(init_reqs)
       /\ Observe(o, <<Ev("RegisterNewKeyCB"), InitCb("PIPELINE_OK")>>, "-")
       /\ UNCHANGED <<decode_cb_, reset_cb_, set_decryptor_ready_cb_, decryptor_,
                      pending_buffer_to_decode_, key_added_while_decode_pending_,
                      queued_audio_frames_, config_, ready_wait, decrypt_reqs,
                      crashed, stop_called, decode_hist, next_frame_id>>

\* ---- DecodePendingBuffer (lines 274-287) --------------------------------------------
\* buffer_size, bound into the callback, is not used by DeliverFrame.
\* DecodePendingBuffer that hands the decryptor an end-of-stream buffer.
DecodePendingBuffer_EndOfStream(buffer) ==
  decrypt_reqs' = Append(decrypt_reqs, [buffer |-> EOSBuffer, live |-> TRUE])

DecodePendingBuffer(buffer) ==
  decrypt_reqs' = Append(decrypt_reqs, [buffer |-> buffer, live |-> TRUE])

\* ---- Decode (lines 86-119) ----------------------------------------------------------
\* Decode without the DCHECK on state_.
DecodeAccepted_NoStateCheck == ~decode_cb_

\* Decode accepted in kIdle only.
DecodeAccepted_IdleOnly == state_ = kIdle /\ ~decode_cb_

DecodeAccepted == state_ \in {kIdle, kDecodeFinished} /\ ~decode_cb_

\* Decode that goes to the decryptor although decoded frames are still queued.
QueuedFramesPending_Ignored == FALSE

\* Line 102: frames of an earlier response are still to be handed over.
QueuedFramesPending == queued_audio_frames_ # <<>>

\* Decode that never seeds the base.
SeedTimestamp_Never(h, buffer) == h

\* The base taken from every buffer that carries data, seeded or not.
SeedTimestamp_EveryBuffer(h, buffer) ==
  IF buffer.kind # "eos" THEN SetBaseTimestamp(h, buffer.timestamp) ELSE h

SeedTimestamp(h, buffer) ==
  IF base_timestamp(h) = kNoTimestamp /\ buffer.kind # "eos"
  THEN SetBaseTimestamp(h, buffer.timestamp)
  ELSE h

Decode(buffer) ==
  /\ ~crashed
  /\ LET o == [Call("Decode") EXCEPT !.buffer = buffer] IN
     IF ~DecodeAccepted THEN Crash(o)
     ELSE IF state_ = kDecodeFinished THEN
       /\ decode_hist' = "none"
       /\ Observe(o, <<DecodeCb("kOk", CreateEOSBuffer)>>, "decode")
       /\ UNCHANGED <<progVars, envVars, crashed, stop_called, next_frame_id>>
     ELSE IF QueuedFramesPending THEN
       IF buffer # NullBuffer THEN Crash(o)
       ELSE
         /\ queued_audio_frames_' = Tail(queued_audio_frames_)
         /\ decode_hist' = "none"
         /\ Observe(o, <<DecodeCb("kOk", Head(queued_audio_frames_))>>, "decode")
         /\ UNCHANGED <<state_, init_cb_, decode_cb_, reset_cb_, set_decryptor_ready_cb_,
                        decryptor_, pending_buffer_to_decode_,
                        key_added_while_decode_pending_, timestamp_helper_, config_,
                        envVars, crashed, stop_called, next_frame_id>>
     ELSE IF buffer = NullBuffer \/ timestamp_helper_ = NoHelper \/ ~decryptor_
     THEN Crash(o)
     ELSE
       /\ decode_cb_' = TRUE
       /\ timestamp_helper_' = SeedTimestamp(timestamp_helper_, buffer)
       /\ pending_buffer_to_decode_' = buffer
       /\ state_' = kPendingDecode
       /\ DecodePendingBuffer(buffer)
       /\ decode_hist' = "submitted"
       /\ Observe(o, <<CallDecryptAndDecode(buffer)>>, "decode")
       /\ UNCHANGED <<init_cb_, reset_cb_, set_decryptor_ready_cb_, decryptor_,
                      key_added_while_decode_pending_, queued_audio_frames_, config_,
                      ready_wait, init_reqs, new_key_cb, crashed, stop_called,
                      next_frame_id>>

\* ---- GetDecodeOutput (lines 121-127) ------------------------------------------------
GetDecodeOutput ==
  /\ ~crashed
  /\ LET o == Call("GetDecodeOutput") IN
     IF queued_audio_frames_ = <<>> THEN
       /\ Observe(o, <<Output(NullFrame)>>, "-")
       /\ UNCHANGED <<progVars, envVars, crashed, stop_called, decode_hist, next_frame_id>>
     ELSE
       /\ queued_audio_frames_' = Tail(queued_audio_frames_)
       /\ Observe(o, <<Output(Head(queued_audio_frames_))>>, "-")
       /\ UNCHANGED <<state_, init_cb_, decode_cb_, reset_cb_, set_decryptor_ready_cb_,
                      decryptor_, pending_buffer_to_decode_,
                      key_added_while_decode_pending_, timestamp_helper_, config_,
                      envVars, crashed, stop_called, decode_hist, next_frame_id>>

\* ---- DoReset (lines 375-381) ----------------------------------------------------------
\* DoReset that leaves the timestamp base in place.
DoReset_KeepsTimestamp ==
  /\ timestamp_helper_' = timestamp_helper_
  /\ state_' = kIdle
  /\ reset_cb_' = FALSE

\* DoReset that runs reset_cb_ without clearing it.
DoReset_KeepsCallback ==
  /\ timestamp_helper_' = SetBaseTimestamp(timestamp_helper_, kNoTimestamp)
  /\ state_' = kIdle
  /\ reset_cb_' = reset_cb_

DoReset ==
  /\ timestamp_helper_' = SetBaseTimestamp(timestamp_helper_, kNoTimestamp)
  /\ state_' = kIdle
  /\ reset_cb_' = FALSE

\* ---- Reset (lines 129-160) ------------------------------------------------------------
\* Reset that may be called again before the previous one has completed.
ResetAccepted_Reentrant ==
  /\ state_ \in {kIdle, kPendingDecode, kWaitingForKey, kDecodeFinished}
  /\ ~init_cb_

ResetAccepted ==
  /\ state_ \in {kIdle, kPendingDecode, kWaitingForKey, kDecodeFinished}
  /\ ~init_cb_
  /\ ~reset_cb_

\* Reset that leaves the decryptor's decoder as it is.
ResetDecoder_Skipped == <<>>

\* Line 141: decryptor_->ResetDecoder(Decryptor::kAudio).
ResetDecoder == <<Ev("ResetDecoder")>>

\* Reset that also waits for the decryptor while the decoder waits for a key.
ResetDeferred_WhileWaitingForKey == state_ \in {kPendingDecode, kWaitingForKey}

\* Reset() cannot complete while the read callback is still pending.
ResetDeferred == state_ = kPendingDecode

Reset ==
  /\ ~crashed
  /\ LET o == Call("Reset") IN
     IF ~ResetAccepted \/ ~decryptor_ THEN Crash(o)
     ELSE IF ResetDeferred THEN
       IF ~decode_cb_ THEN Crash(o)
       ELSE
         /\ reset_cb_' = TRUE
         /\ Observe(o, ResetDecoder, "reset")
         /\ UNCHANGED <<state_, init_cb_, decode_cb_, set_decryptor_ready_cb_,
                        decryptor_, pending_buffer_to_decode_,
                        key_added_while_decode_pending_, queued_audio_frames_,
                        timestamp_helper_, config_, envVars, crashed, stop_called,
                        decode_hist, next_frame_id>>
     ELSE IF state_ = kWaitingForKey THEN
       IF ~decode_cb_ THEN Crash(o)
       ELSE
         /\ pending_buffer_to_decode_' = NullBuffer
         /\ decode_cb_' = FALSE
         /\ DoReset
         /\ UNCHANGED decode_hist
         /\ Observe(o, ResetDecoder \o <<DecodeCb("kAborted", NullFrame), ResetCb>>,
                    "reset")
         /\ UNCHANGED <<init_cb_, set_decryptor_ready_cb_, decryptor_,
                        key_added_while_decode_pending_, queued_audio_frames_,
                        config_, envVars, crashed, stop_called, next_frame_id>>
     ELSE IF decode_cb_ THEN Crash(o)
     ELSE
       /\ DoReset
       /\ Observe(o, ResetDecoder \o <<ResetCb>>, "reset")
       /\ UNCHANGED <<init_cb_, decode_cb_, set_decryptor_ready_cb_, decryptor_,
                      pending_buffer_to_decode_, key_added_while_decode_pending_,
                      queued_audio_frames_, config_, envVars, crashed, stop_called,
                      decode_hist, next_frame_id>>

\* ---- Stop (lines 162-186) -------------------------------------------------------------
\* Stop that forgets the pending decode callback.
StopEvents_NoDecodeAbort ==
  (IF decryptor_ THEN <<Ev("DeinitializeDecoder")>> ELSE <<>>)
  \o (IF set_decryptor_ready_cb_ THEN <<Ev("CancelDecryptorReadyCB")>> ELSE <<>>)
  \o (IF init_cb_ THEN <<InitCb("DECODER_ERROR_NOT_SUPPORTED")>> ELSE <<>>)
  \o (IF reset_cb_ THEN <<ResetCb>> ELSE <<>>)
  \o <<StopCb>>

\* Stop that drops a pending init callback without running it.
StopEvents_NoInitAbort ==
  (IF decryptor_ THEN <<Ev("DeinitializeDecoder")>> ELSE <<>>)
  \o (IF set_decryptor_ready_cb_ THEN <<Ev("CancelDecryptorReadyCB")>> ELSE <<>>)
  \o (IF decode_cb_ THEN <<DecodeCb("kAborted", NullFrame)>> ELSE <<>>)
  \o (IF reset_cb_ THEN <<ResetCb>> ELSE <<>>)
  \o <<StopCb>>

\* Stop that runs the reset callback before the decode callback.
StopEvents_ResetFirst ==
  (IF decryptor_ THEN <<Ev("DeinitializeDecoder")>> ELSE <<>>)
  \o (IF set_decryptor_ready_cb_ THEN <<Ev("CancelDecryptorReadyCB")>> ELSE <<>>)
  \o (IF init_cb_ THEN <<InitCb("DECODER_ERROR_NOT_SUPPORTED")>> ELSE <<>>)
  \o (IF reset_cb_ THEN <<ResetCb>> ELSE <<>>)
  \o (IF decode_cb_ THEN <<DecodeCb("kAborted", NullFrame)>> ELSE <<>>)
  \o <<StopCb>>

\* Stop that posts its own closure before it completes the pending callbacks.
StopEvents_StopFirst ==
  (IF decryptor_ THEN <<Ev("DeinitializeDecoder")>> ELSE <<>>)
  \o (IF set_decryptor_ready_cb_ THEN <<Ev("CancelDecryptorReadyCB")>> ELSE <<>>)
  \o <<StopCb>>
  \o (IF init_cb_ THEN <<InitCb("DECODER_ERROR_NOT_SUPPORTED")>> ELSE <<>>)
  \o (IF decode_cb_ THEN <<DecodeCb("kAborted", NullFrame)>> ELSE <<>>)
  \o (IF reset_cb_ THEN <<ResetCb>> ELSE <<>>)

StopEvents ==
  (IF decryptor_ THEN <<Ev("DeinitializeDecoder")>> ELSE <<>>)
  \o (IF set_decryptor_ready_cb_ THEN <<Ev("CancelDecryptorReadyCB")>> ELSE <<>>)
  \o (IF init_cb_ THEN <<InitCb("DECODER_ERROR_NOT_SUPPORTED")>> ELSE <<>>)
  \o (IF decode_cb_ THEN <<DecodeCb("kAborted", NullFrame)>> ELSE <<>>)
  \o (IF reset_cb_ THEN <<ResetCb>> ELSE <<>>)
  \o <<StopCb>>

\* Stop with the decrypt callback bound to a raw pointer instead of weak_this_.
InvalidateWeakPtrs_DecryptUnretained ==
  /\ ready_wait' = Kill(ready_wait)
  /\ init_reqs' = Kill(init_reqs)
  /\ decrypt_reqs' = decrypt_reqs
  /\ new_key_cb' = IF new_key_cb = "none" THEN "none" ELSE "dead"

\* weak_factory_.InvalidateWeakPtrs(): every callback bound so far is dead.
InvalidateWeakPtrs ==
  /\ ready_wait' = Kill(ready_wait)
  /\ init_reqs' = Kill(init_reqs)
  /\ decrypt_reqs' = Kill(decrypt_reqs)
  /\ new_key_cb' = IF new_key_cb = "none" THEN "none" ELSE "dead"

\* Stop that puts the decoder back where it started.
StopState_Uninitialized == kUninitialized

StopState == kStopped

Stop ==
  /\ ~crashed
  /\ InvalidateWeakPtrs
  /\ decryptor_' = FALSE
  /\ set_decryptor_ready_cb_' = FALSE
  /\ pending_buffer_to_decode_' = NullBuffer
  /\ init_cb_' = FALSE
  /\ decode_cb_' = FALSE
  /\ reset_cb_' = FALSE
  /\ state_' = StopState
  /\ stop_called' = TRUE
  /\ UNCHANGED decode_hist
  /\ Observe(Call("Stop"), StopEvents, "-")
  /\ UNCHANGED <<key_added_while_decode_pending_, queued_audio_frames_,
                 timestamp_helper_, config_, crashed, next_frame_id>>

\* ---- EnqueueFrames (lines 390-415) ------------------------------------------------------
IsOutOfSync(timestamp_1, timestamp_2) ==
  LET d == (timestamp_1 \div 1000) - (timestamp_2 \div 1000) IN
  (IF d < 0 THEN -d ELSE d) > kOutOfSyncThresholdInMilliseconds

\* EnqueueFrames without the set_timestamp() of line 408: a frame keeps the
\* timestamp the decryptor attached to it.
RECURSIVE EnqueueFrames_KeepsDecryptorTimestamp(_, _)
EnqueueFrames_KeepsDecryptorTimestamp(frames, h) ==
  IF frames = <<>> THEN <<>>
  ELSE LET frame == Head(frames) IN
       <<[frame EXCEPT !.duration = GetFrameDuration(h, frame.frame_count)]>>
       \o EnqueueFrames_KeepsDecryptorTimestamp(Tail(frames),
                                                AddFrames(h, frame.frame_count))

\* EnqueueFrames without the AddFrames() of line 411: every frame of a response
\* is stamped from the same running total.
RECURSIVE EnqueueFrames_NoAdvance(_, _)
EnqueueFrames_NoAdvance(frames, h) ==
  IF frames = <<>> THEN <<>>
  ELSE LET frame == Head(frames) IN
       <<[frame EXCEPT !.timestamp = GetTimestamp(h),
                       !.duration = GetFrameDuration(h, frame.frame_count)]>>
       \o EnqueueFrames_NoAdvance(Tail(frames), h)

RECURSIVE EnqueueFrames(_, _)
EnqueueFrames(frames, h) ==
  IF frames = <<>> THEN <<>>
  ELSE LET frame == Head(frames) IN
       <<[frame EXCEPT !.timestamp = GetTimestamp(h),
                       !.duration = GetFrameDuration(h, frame.frame_count)]>>
       \o EnqueueFrames(Tail(frames), AddFrames(h, frame.frame_count))

RECURSIVE HelperAfterEnqueue(_, _)
HelperAfterEnqueue(frames, h) ==
  IF frames = <<>> THEN h
  ELSE HelperAfterEnqueue(Tail(frames), AddFrames(h, Head(frames).frame_count))

\* ---- DeliverFrame (lines 289-359) -------------------------------------------------------
\* The flag read after it was cleared: a latched key is forgotten.
need_to_try_again_ReadAfterClear == FALSE

\* The retry taken whether or not a key was latched.
need_to_try_again_Always == TRUE

need_to_try_again_if_nokey_is_returned == key_added_while_decode_pending_

\* A decode error that leaves the decoder ready for the next buffer.
ErrorState_Idle == kIdle

\* The state a kError response leaves the decoder in (line 317).
ErrorState == kDecodeFinished

\* A kNeedMoreData response that never finishes decoding.
NeedMoreDataState_AlwaysIdle(buffer) == kIdle

\* The state a kNeedMoreData response leaves the decoder in (lines 340-348).
NeedMoreDataState(buffer) ==
  IF buffer.kind = "eos" THEN kDecodeFinished ELSE kIdle

\* A kNoKey response taken for the end of the stream.
NoKeyState_DecodeFinished == kDecodeFinished

\* A kNoKey response that leaves the decoder idle instead of waiting for a key.
NoKeyState_Idle == kIdle

\* The state a kNoKey response leaves the decoder in when no key was latched
\* (line 334).
NoKeyState == kWaitingForKey

\* DeliverFrame that reads the latch without clearing it.
KeyAddedAfterResponse_Kept == key_added_while_decode_pending_

\* Line 301: the latch is cleared as soon as the response has read it.
KeyAddedAfterResponse == FALSE

\* DeliverFrame without the check for a pending Reset.
ResetPending_Ignored == FALSE

ResetPending == reset_cb_

\* The frames behind the first one thrown away after the callback has run.
QueueAfterDelivery_DropRest(queued) == <<>>

\* Run(front) without the pop_front() that follows it.
QueueAfterDelivery_NoPop(queued) == queued

\* Lines 357-358: the first frame goes to the caller, the rest stays queued.
QueueAfterDelivery(queued) == Tail(queued)

\* What the decryptor may answer: frames exactly when the status is kSuccess.
FrameShapes == [frame_count : FrameCounts, timestamp : FrameTimestamps]

DecodedFrames ==
  UNION {[1..n -> FrameShapes] :
           n \in {m \in 1..MaxFramesPerResponse : next_frame_id + m - 1 <= MaxFrameId}}

MakeFrames(shapes) ==
  [i \in DOMAIN shapes |->
     [kind |-> "data", id |-> next_frame_id + i - 1,
      frame_count |-> shapes[i].frame_count,
      timestamp |-> shapes[i].timestamp, duration |-> 0]]

DeliverFrame(status, frames) ==
  /\ ~crashed
  /\ decrypt_reqs # <<>> /\ Head(decrypt_reqs).live
  /\ (status = "kSuccess") = (frames # <<>>)
  /\ next_frame_id' = next_frame_id + Len(frames)
  /\ LET o == [Call("DeliverFrame") EXCEPT !.status = status, !.frames = frames,
                                           !.buffer = Head(decrypt_reqs).buffer]
         scoped_pending_buffer_to_decode == pending_buffer_to_decode_
     IN
     IF \/ state_ # kPendingDecode
        \/ ~decode_cb_
        \/ pending_buffer_to_decode_ = NullBuffer
        \/ queued_audio_frames_ # <<>>
     THEN /\ crashed' = TRUE
          /\ op' = [o EXCEPT !.ok = FALSE]
          /\ out' = <<>>
          /\ UNCHANGED <<progVars, envVars, stop_called, issued, fired, decode_hist,
                         delivered, decode_error_reported,
                         last_delivered_timestamp, base_cleared, init_failed,
                         outstanding, decode_buffer>>
     ELSE IF ResetPending THEN
       IF init_cb_ THEN
          /\ crashed' = TRUE
          /\ op' = [o EXCEPT !.ok = FALSE]
          /\ out' = <<>>
          /\ UNCHANGED <<progVars, envVars, stop_called, issued, fired, decode_hist,
                         delivered, decode_error_reported,
                         last_delivered_timestamp, base_cleared, init_failed,
                         outstanding, decode_buffer>>
       ELSE
          /\ key_added_while_decode_pending_' = KeyAddedAfterResponse
          /\ pending_buffer_to_decode_' = NullBuffer
          /\ decode_cb_' = FALSE
          /\ DoReset
          /\ decrypt_reqs' = Tail(decrypt_reqs)
          /\ UNCHANGED decode_hist
          /\ Observe(o, <<DecodeCb("kAborted", NullFrame), ResetCb>>, "-")
          /\ UNCHANGED <<init_cb_, set_decryptor_ready_cb_, decryptor_,
                         queued_audio_frames_, config_, ready_wait, init_reqs,
                         new_key_cb, crashed, stop_called>>
     ELSE IF status = "kError" THEN
       /\ key_added_while_decode_pending_' = KeyAddedAfterResponse
       /\ pending_buffer_to_decode_' = NullBuffer
       /\ state_' = ErrorState
       /\ decode_cb_' = FALSE
       /\ decrypt_reqs' = Tail(decrypt_reqs)
       /\ UNCHANGED decode_hist
       /\ Observe(o, <<DecodeCb("kDecodeError", NullFrame)>>, "-")
       /\ UNCHANGED <<init_cb_, reset_cb_, set_decryptor_ready_cb_, decryptor_,
                      queued_audio_frames_, timestamp_helper_, config_, ready_wait,
                      init_reqs, new_key_cb, crashed, stop_called>>
     ELSE IF status = "kNoKey" THEN
       IF need_to_try_again_if_nokey_is_returned THEN
         /\ key_added_while_decode_pending_' = KeyAddedAfterResponse
         /\ pending_buffer_to_decode_' = scoped_pending_buffer_to_decode
         /\ decrypt_reqs' = Append(Tail(decrypt_reqs),
                                   [buffer |-> scoped_pending_buffer_to_decode,
                                    live |-> TRUE])
         /\ decode_hist' = "retried"
         /\ Observe(o, <<CallDecryptAndDecode(scoped_pending_buffer_to_decode)>>, "-")
         /\ UNCHANGED <<state_, init_cb_, decode_cb_, reset_cb_,
                        set_decryptor_ready_cb_, decryptor_, queued_audio_frames_,
                        timestamp_helper_, config_, ready_wait, init_reqs,
                        new_key_cb, crashed, stop_called>>
       ELSE
         /\ key_added_while_decode_pending_' = KeyAddedAfterResponse
         /\ pending_buffer_to_decode_' = scoped_pending_buffer_to_decode
         /\ state_' = NoKeyState
         /\ decrypt_reqs' = Tail(decrypt_reqs)
         /\ decode_hist' = "nokey"
         /\ Observe(o, <<>>, "-")
         /\ UNCHANGED <<init_cb_, decode_cb_, reset_cb_, set_decryptor_ready_cb_,
                        decryptor_, queued_audio_frames_, timestamp_helper_, config_,
                        ready_wait, init_reqs, new_key_cb, crashed, stop_called>>
     ELSE IF status = "kNeedMoreData" THEN
       /\ key_added_while_decode_pending_' = KeyAddedAfterResponse
       /\ pending_buffer_to_decode_' = NullBuffer
       /\ state_' = NeedMoreDataState(scoped_pending_buffer_to_decode)
       /\ decode_cb_' = FALSE
       /\ decrypt_reqs' = Tail(decrypt_reqs)
       /\ UNCHANGED decode_hist
       /\ Observe(o, IF scoped_pending_buffer_to_decode.kind = "eos"
                     THEN <<DecodeCb("kOk", CreateEOSBuffer)>>
                     ELSE <<DecodeCb("kNotEnoughData", NullFrame)>>, "-")
       /\ UNCHANGED <<init_cb_, reset_cb_, set_decryptor_ready_cb_, decryptor_,
                      queued_audio_frames_, timestamp_helper_, config_, ready_wait,
                      init_reqs, new_key_cb, crashed, stop_called>>
     ELSE
       LET queued == EnqueueFrames(frames, timestamp_helper_) IN
       /\ key_added_while_decode_pending_' = KeyAddedAfterResponse
       /\ pending_buffer_to_decode_' = NullBuffer
       /\ timestamp_helper_' = HelperAfterEnqueue(frames, timestamp_helper_)
       /\ state_' = kIdle
       /\ decode_cb_' = FALSE
       /\ queued_audio_frames_' = QueueAfterDelivery(queued)
       /\ decrypt_reqs' = Tail(decrypt_reqs)
       /\ UNCHANGED decode_hist
       /\ Observe(o, <<DecodeCb("kOk", Head(queued))>>, "-")
       /\ UNCHANGED <<init_cb_, reset_cb_, set_decryptor_ready_cb_, decryptor_,
                      config_, ready_wait, init_reqs, new_key_cb, crashed,
                      stop_called>>

\* ---- OnKeyAdded (lines 361-373) ---------------------------------------------------------
\* OnKeyAdded without the latch: a key arriving in kPendingDecode resubmits at once.
OnKeyAdded_NoLatch ==
  /\ ~crashed
  /\ new_key_cb = "live"
  /\ LET o == Call("OnKeyAdded") IN
     IF state_ \in {kPendingDecode, kWaitingForKey} THEN
       IF pending_buffer_to_decode_ = NullBuffer \/ ~decryptor_ THEN Crash(o)
       ELSE
         /\ state_' = kPendingDecode
         /\ DecodePendingBuffer(pending_buffer_to_decode_)
         /\ decode_hist' = "resumed"
         /\ Observe(o, <<CallDecryptAndDecode(pending_buffer_to_decode_)>>, "-")
         /\ UNCHANGED <<init_cb_, decode_cb_, reset_cb_, set_decryptor_ready_cb_,
                        decryptor_, pending_buffer_to_decode_,
                        key_added_while_decode_pending_, queued_audio_frames_,
                        timestamp_helper_, config_, ready_wait, init_reqs,
                        new_key_cb, crashed, stop_called, next_frame_id>>
     ELSE
       /\ Observe(o, <<>>, "-")
       /\ UNCHANGED <<progVars, envVars, crashed, stop_called, decode_hist,
                      next_frame_id>>

\* OnKeyAdded that also latches a key arriving while the decoder is idle.
KeyAddedWhileDecodePending_OrIdle == state_ \in {kPendingDecode, kIdle}

\* OnKeyAdded that also latches a key arriving after the stream has finished.
KeyAddedWhileDecodePending_OrFinished == state_ \in {kPendingDecode, kDecodeFinished}

\* Line 364: the key arrives while a request is with the decryptor.
KeyAddedWhileDecodePending == state_ = kPendingDecode

OnKeyAdded ==
  /\ ~crashed
  /\ new_key_cb = "live"
  /\ LET o == Call("OnKeyAdded") IN
     IF KeyAddedWhileDecodePending THEN
       /\ key_added_while_decode_pending_' = TRUE
       /\ Observe(o, <<>>, "-")
       /\ UNCHANGED <<state_, init_cb_, decode_cb_, reset_cb_, set_decryptor_ready_cb_,
                      decryptor_, pending_buffer_to_decode_, queued_audio_frames_,
                      timestamp_helper_, config_, envVars, crashed, stop_called,
                      decode_hist, next_frame_id>>
     ELSE IF state_ = kWaitingForKey THEN
       IF pending_buffer_to_decode_ = NullBuffer \/ ~decryptor_ THEN Crash(o)
       ELSE
         /\ state_' = kPendingDecode
         /\ DecodePendingBuffer(pending_buffer_to_decode_)
         /\ decode_hist' = "resumed"
         /\ Observe(o, <<CallDecryptAndDecode(pending_buffer_to_decode_)>>, "-")
         /\ UNCHANGED <<init_cb_, decode_cb_, reset_cb_, set_decryptor_ready_cb_,
                        decryptor_, pending_buffer_to_decode_,
                        key_added_while_decode_pending_, queued_audio_frames_,
                        timestamp_helper_, config_, ready_wait, init_reqs,
                        new_key_cb, crashed, stop_called, next_frame_id>>
     ELSE
       /\ Observe(o, <<>>, "-")
       /\ UNCHANGED <<progVars, envVars, crashed, stop_called, decode_hist,
                      next_frame_id>>

\* ---- callbacks bound to an invalidated weak pointer: the task runs nothing --------------
Dropped(name) ==
  /\ Observe(Call(name), <<>>, "-")
  /\ UNCHANGED <<progVars, crashed, stop_called, decode_hist, next_frame_id>>

LateSetDecryptor ==
  /\ ~crashed
  /\ ready_wait # <<>> /\ ~Head(ready_wait).live
  /\ ready_wait' = Tail(ready_wait)
  /\ Dropped("LateSetDecryptor")
  /\ UNCHANGED <<init_reqs, decrypt_reqs, new_key_cb>>

LateFinishInitialization ==
  /\ ~crashed
  /\ init_reqs # <<>> /\ ~Head(init_reqs).live
  /\ init_reqs' = Tail(init_reqs)
  /\ Dropped("LateFinishInitialization")
  /\ UNCHANGED <<ready_wait, decrypt_reqs, new_key_cb>>

LateDeliverFrame ==
  /\ ~crashed
  /\ decrypt_reqs # <<>> /\ ~Head(decrypt_reqs).live
  /\ decrypt_reqs' = Tail(decrypt_reqs)
  /\ Dropped("LateDeliverFrame")
  /\ UNCHANGED <<ready_wait, init_reqs, new_key_cb>>

LateOnKeyAdded ==
  /\ ~crashed
  /\ new_key_cb = "dead"
  /\ Dropped("LateOnKeyAdded")
  /\ UNCHANGED envVars

\* ---- the system ---------------------------------------------------------------------------
Next ==
  \/ \E config \in Configs : Initialize(config)
  \/ \E decryptor \in BOOLEAN : SetDecryptor(decryptor)
  \/ \E success \in BOOLEAN : FinishInitialization(success)
  \/ \E buffer \in Buffers \cup {NullBuffer} : Decode(buffer)
  \/ GetDecodeOutput
  \/ Reset
  \/ Stop
  \/ \E status \in DecryptorStatus \ {"kSuccess"} : DeliverFrame(status, <<>>)
  \/ \E shapes \in DecodedFrames : DeliverFrame("kSuccess", MakeFrames(shapes))
  \/ OnKeyAdded
  \/ LateSetDecryptor
  \/ LateFinishInitialization
  \/ LateDeliverFrame
  \/ LateOnKeyAdded

Spec == Init /\ [][Next]_vars

\* ==== properties =============================================================================

\* The caller still waits for the completion of operation k.
Waiting(k) == k \in issued /\ fired[k] = 0

AsyncHandlers ==
  {"SetDecryptor", "FinishInitialization", "DeliverFrame", "OnKeyAdded",
   "LateSetDecryptor", "LateFinishInitialization", "LateDeliverFrame",
   "LateOnKeyAdded"}

\* Only a call of the caller can break a DCHECK; the callbacks never do.
CrashOnlyInCallerOps == crashed => op.name \in {"Initialize", "Decode", "Reset"}

\* C1: in every reachable state at most one DecryptAndDecode request is
\* outstanding at the decryptor.
C1_SingleFlight == Len(decrypt_reqs) <= 1

C1_Witness == decode_hist = "retried" /\ Len(decrypt_reqs) = 1 /\ ~stop_called

\* C2: a Decode call made in a state other than kIdle/kDecodeFinished, or while
\* a Decode callback is outstanding, fails an assertion: the process stops, no
\* callback fires (no error result) and nothing is submitted to the decryptor.
C2_DecodeContract ==
  [][(op'.name = "Decode" /\ ~(state_ \in {kIdle, kDecodeFinished} /\ ~decode_cb_))
       => /\ crashed' /\ ~op'.ok
          /\ out' = <<>>
          /\ UNCHANGED <<progVars, envVars, fired, issued>>]_vars

C2_Witness ==
  /\ crashed /\ op.name = "Decode" /\ ~op.ok
  /\ state_ = kPendingDecode /\ decode_cb_ /\ Len(decrypt_reqs) = 1

C4_StoppedIsTerminal ==
  [][/\ op'.name = "Stop" => state_' = kStopped /\ ~crashed'
     /\ stop_called => state_' = kStopped
     /\ (stop_called /\ op'.name \in AsyncHandlers) =>
          /\ UNCHANGED progVars
          /\ out' = <<>>
          /\ ~crashed']_vars

C4_Witness ==
  /\ stop_called /\ op.name = "LateDeliverFrame"
  /\ state_ = kStopped /\ new_key_cb = "dead"

\* C5: Stop cancels the decryptor-ready wait, then completes Initialize, then
\* Decode, then Reset, and posts its own completion last.
StopRank(ev) ==
  CASE ev = "CancelDecryptorReadyCB" -> 1
    [] ev = "init_cb" -> 2
    [] ev = "decode_cb" -> 3
    [] ev = "reset_cb" -> 4
    [] ev = "stop_cb" -> 5
    [] OTHER -> 0

C5_StopOrder ==
  op.name = "Stop" =>
    /\ \A i, j \in DOMAIN out :
         (i < j /\ StopRank(out[i].ev) > 0 /\ StopRank(out[j].ev) > 0)
           => StopRank(out[i].ev) < StopRank(out[j].ev)
    /\ out # <<>> /\ out[Len(out)] = StopCb

C5_Witness ==
  /\ op.name = "Stop"
  /\ \E i, j \in DOMAIN out : i < j /\ out[i].ev = "decode_cb" /\ out[j].ev = "reset_cb"

\* No frame reaches the caller twice: what a handler delivers was never
\* delivered before, and it delivers no frame twice itself.
NoFrameDeliveredTwice ==
  /\ DeliveredIds(out') \cap delivered = {}
  /\ Cardinality(DeliveredIds(out')) =
       Cardinality({i \in DOMAIN out' : out'[i].ev \in {"decode_cb", "output"}
                                         /\ out'[i].frame.kind = "data"})

\* A Success response completes the outstanding Decode exactly once with the
\* first frame of the response.
CompletesWithFirstFrame ==
  /\ fired["decode"] = 0 /\ fired'["decode"] = 1
  /\ Count(out', "decode_cb") = 1
  /\ \E i \in DOMAIN out' :
       /\ out'[i].ev = "decode_cb"
       /\ out'[i].status = "kOk"
       /\ out'[i].frame.kind = "data"
       /\ out'[i].frame.id = op'.frames[1].id

\* C6 as stated: a Decode answered NoKey, resumed by a key-arrival signal and
\* then answered Success completes exactly once with the first decoded frame,
\* and no frame is delivered twice.
C6_Original ==
  [][/\ (decode_hist = "resumed" /\ op'.name = "DeliverFrame"
           /\ op'.status = "kSuccess") => CompletesWithFirstFrame
     /\ NoFrameDeliveredTwice]_vars

\* C6 amended: the same, provided no Reset is pending when the Success
\* response is handled (a pending Reset aborts the Decode instead).
C6_KeyWaitResume ==
  [][/\ (decode_hist = "resumed" /\ op'.name = "DeliverFrame"
           /\ op'.status = "kSuccess" /\ ~reset_cb_) => CompletesWithFirstFrame
     /\ (decode_hist = "resumed" /\ op'.name = "DeliverFrame"
           /\ op'.status = "kSuccess" /\ reset_cb_) =>
          fired["decode"] = 0 /\ fired'["decode"] = 1
     /\ NoFrameDeliveredTwice]_vars

C6_Witness ==
  /\ decode_hist = "resumed" /\ op.name = "DeliverFrame" /\ op.status = "kSuccess"
  /\ Len(out) = 1 /\ out[1].ev = "decode_cb" /\ out[1].frame.kind = "data"
  /\ Len(op.frames) = 2 /\ queued_audio_frames_ # <<>>

\* What a NoKey response with no latched key leaves behind.
StallsForKey ==
  /\ state_' = kWaitingForKey
  /\ decode_cb_' /\ Count(out', "decode_cb") = 0 /\ fired'["decode"] = 0
  /\ pending_buffer_to_decode_' = pending_buffer_to_decode_
  /\ pending_buffer_to_decode_' # NullBuffer
  /\ decrypt_reqs' = <<>>

\* In kWaitingForKey only a key-arrival signal, a Reset or a Stop ends the wait.
StaysWaitingForKey ==
  (state_ = kWaitingForKey /\ op'.name \notin {"OnKeyAdded", "Reset", "Stop"}) =>
    /\ state_' = kWaitingForKey
    /\ decode_cb_' /\ Count(out', "decode_cb") = 0 /\ fired'["decode"] = 0
    /\ pending_buffer_to_decode_' = pending_buffer_to_decode_
    /\ decrypt_reqs' = <<>>

\* C7 as stated: every NoKey response that finds no latched key-arrival signal
\* leads to kWaitingForKey with the callback unfired and the buffer retained.
C7_Original ==
  [][/\ (op'.name = "DeliverFrame" /\ op'.status = "kNoKey"
           /\ ~key_added_while_decode_pending_) => StallsForKey
     /\ StaysWaitingForKey]_vars

\* C7 amended: the same, provided no Reset is pending when the NoKey response
\* is handled.
C7_WaitingForKey ==
  [][/\ (op'.name = "DeliverFrame" /\ op'.status = "kNoKey"
           /\ ~key_added_while_decode_pending_ /\ ~reset_cb_) => StallsForKey
     /\ StaysWaitingForKey]_vars

C7_Witness ==
  /\ state_ = kWaitingForKey /\ op.name = "DeliverFrame" /\ op.status = "kNoKey"
  /\ decode_cb_ /\ pending_buffer_to_decode_ = op.buffer /\ decrypt_reqs = <<>>

\* C8: a NoKey response that finds a latched key-arrival signal (no Reset
\* pending) resubmits the same buffer exactly once, stays in kPendingDecode,
\* does not enter kWaitingForKey and does not fire the Decode callback.
C8_RaceIdempotence ==
  [][(op'.name = "DeliverFrame" /\ op'.status = "kNoKey"
        /\ key_added_while_decode_pending_ /\ ~reset_cb_) =>
       /\ out' = <<CallDecryptAndDecode(pending_buffer_to_decode_)>>
       /\ Len(decrypt_reqs') = 1
       /\ decrypt_reqs'[1] = [buffer |-> pending_buffer_to_decode_, live |-> TRUE]
       /\ state_' = kPendingDecode
       /\ decode_cb_' /\ fired'["decode"] = 0
       /\ pending_buffer_to_decode_' = pending_buffer_to_decode_
       /\ ~key_added_while_decode_pending_']_vars

C8_Witness ==
  /\ op.name = "DeliverFrame" /\ op.status = "kNoKey" /\ decode_hist = "retried"
  /\ state_ = kPendingDecode /\ out = <<CallDecryptAndDecode(op.buffer)>>

\* The deferred Reset is taken: it stays pending, nothing completes.
ResetIsDeferred ==
  (op'.name = "Reset" /\ state_ = kPendingDecode /\ ~init_cb_ /\ ~reset_cb_) =>
    /\ ~crashed'
    /\ reset_cb_' /\ Count(out', "reset_cb") = 0 /\ Count(out', "decode_cb") = 0
    /\ state_' = kPendingDecode

\* The deferred Reset completes in DeliverFrame, after the aborted Decode.
CompletedByResponse ==
  /\ op'.name = "DeliverFrame"
  /\ out' = <<DecodeCb("kAborted", NullFrame), ResetCb>>
  /\ state_' = kIdle
  /\ base_timestamp(timestamp_helper_') = kNoTimestamp

\* The deferred Reset is completed by Stop, after the aborted Decode.
CompletedByStop ==
  /\ op'.name = "Stop"
  /\ \E i, j \in DOMAIN out' :
       /\ i < j
       /\ out'[i] = DecodeCb("kAborted", NullFrame)
       /\ out'[j] = ResetCb
  /\ state_' = kStopped

\* C9 as stated: a Reset deferred behind an in-flight Decode completes only
\* when the response has arrived and the Decode callback fired aborted, and
\* then the state is kIdle and the timestamp base is cleared.
C9_Original ==
  [][/\ ResetIsDeferred
     /\ reset_cb_ => (reset_cb_' /\ Count(out', "reset_cb") = 0) \/ CompletedByResponse]_vars

\* C9 amended: the same unless Stop is invoked while the Reset is pending:
\* Stop fires the aborted Decode callback and then the Reset callback without
\* waiting for the response, and leaves the state kStopped.
C9_ResetDraining ==
  [][/\ ResetIsDeferred
     /\ reset_cb_ => \/ reset_cb_' /\ Count(out', "reset_cb") = 0
                     \/ CompletedByResponse
                     \/ CompletedByStop]_vars

C9_Witness ==
  /\ op.name = "DeliverFrame" /\ op.buffer.kind = "data"
  /\ out = <<DecodeCb("kAborted", NullFrame), ResetCb>>
  /\ state_ = kIdle /\ base_timestamp(timestamp_helper_) = kNoTimestamp
  /\ fired["reset"] = 1 /\ fired["decode"] = 1

\* C10: whatever its status, a response handled while a Reset is pending
\* aborts the Decode with no frame, discards the buffer, enqueues nothing,
\* retries nothing and completes the Reset in kIdle.
C10_ResetShortCircuit ==
  [][(op'.name = "DeliverFrame" /\ reset_cb_) =>
       /\ op'.status \in DecryptorStatus
       /\ out' = <<DecodeCb("kAborted", NullFrame), ResetCb>>
       /\ pending_buffer_to_decode_' = NullBuffer
       /\ queued_audio_frames_' = <<>>
       /\ decrypt_reqs' = <<>>
       /\ state_' = kIdle
       /\ ~decode_cb_' /\ ~reset_cb_'
       /\ ~key_added_while_decode_pending_']_vars

C10_Witness ==
  /\ op.name = "DeliverFrame" /\ op.status = "kSuccess" /\ Len(op.frames) = 2
  /\ out = <<DecodeCb("kAborted", NullFrame), ResetCb>>
  /\ state_ = kIdle /\ queued_audio_frames_ = <<>>

\* A DecryptAndDecodeAudio request handed to the decryptor by the last handler.
Submits(events) == Count(events, "DecryptAndDecodeAudio") > 0

\* C11: Reset called in kWaitingForKey completes the outstanding Decode callback
\* with kAborted at once, releases the retained buffer and completes itself at
\* once in kIdle, without a request to the decryptor; a key-arrival signal
\* handled while no buffer is retained submits nothing and changes nothing.
C11_ResetWhileWaitingForKey ==
  [][/\ (op'.name = "Reset" /\ state_ = kWaitingForKey) =>
          /\ ~crashed'
          /\ out' = <<Ev("ResetDecoder"), DecodeCb("kAborted", NullFrame), ResetCb>>
          /\ pending_buffer_to_decode_' = NullBuffer
          /\ state_' = kIdle
          /\ ~decode_cb_' /\ ~reset_cb_'
          /\ decrypt_reqs' = decrypt_reqs /\ decrypt_reqs = <<>>
     /\ (op'.name = "OnKeyAdded" /\ pending_buffer_to_decode_ = NullBuffer) =>
          /\ ~Submits(out')
          /\ UNCHANGED <<progVars, envVars>>
     /\ (op'.name = "OnKeyAdded" /\ Submits(out')) =>
          /\ decode_cb_ /\ state_ = kWaitingForKey
          /\ out' = <<CallDecryptAndDecode(pending_buffer_to_decode_)>>
    ]_vars

C11_Witness ==
  /\ op.name = "OnKeyAdded" /\ op.ok /\ out = <<>>
  /\ decode_hist = "nokey" /\ state_ = kIdle
  /\ pending_buffer_to_decode_ = NullBuffer
  /\ "reset" \in issued /\ fired["reset"] = 1 /\ fired["decode"] = 1
  /\ ~stop_called

\* C12: once a Decode has completed with kDecodeError, no later step submits a
\* buffer to the decryptor or hands a decoded frame to the caller.
C12_ErrorIsPermanent ==
  [][decode_error_reported => (~Submits(out') /\ DeliveredIds(out') = {})]_vars

\* A decoded frame delivered after a decode error: Reset has put the decoder back
\* into kIdle and the next Decode went to the decryptor.
C12_Witness ==
  /\ decode_error_reported /\ ~crashed /\ ~stop_called
  /\ op.name = "DeliverFrame" /\ op.status = "kSuccess"
  /\ DeliveredIds(out) # {}
  /\ fired["init"] = 1

\* C13: a kError response handled while no Reset is pending leaves the decoder in
\* kDecodeFinished, completes the Decode callback with kDecodeError and no frame,
\* releases the buffer and submits nothing, whether or not a key-arrival signal
\* was latched during the request; the latch is cleared.
C13_ErrorResponse ==
  [][(op'.name = "DeliverFrame" /\ op'.status = "kError" /\ ~reset_cb_) =>
       /\ ~crashed'
       /\ state_' = kDecodeFinished
       /\ out' = <<DecodeCb("kDecodeError", NullFrame)>>
       /\ ~decode_cb_'
       /\ pending_buffer_to_decode_' = NullBuffer
       /\ decrypt_reqs' = <<>>
       /\ ~key_added_while_decode_pending_'
       /\ queued_audio_frames_' = <<>>
    ]_vars

C13_Witness ==
  /\ op.name = "DeliverFrame" /\ op.status = "kError" /\ op.ok
  /\ state_ = kDecodeFinished /\ ~decode_cb_
  /\ out = <<DecodeCb("kDecodeError", NullFrame)>>
  /\ pending_buffer_to_decode_ = NullBuffer /\ decrypt_reqs = <<>>
  /\ fired["decode"] = 1 /\ ~stop_called

\* C14: a kNeedMoreData response handled while no Reset is pending: for an
\* end-of-stream buffer the state becomes kDecodeFinished and the callback gets
\* kOk with an end-of-stream frame; for any other buffer the state becomes kIdle
\* and the callback gets kNotEnoughData with no frame.
C14_NeedMoreData ==
  [][(op'.name = "DeliverFrame" /\ op'.status = "kNeedMoreData" /\ ~reset_cb_) =>
       /\ ~crashed'
       /\ ~decode_cb_'
       /\ pending_buffer_to_decode_' = NullBuffer
       /\ decrypt_reqs' = <<>>
       /\ IF pending_buffer_to_decode_.kind = "eos"
          THEN /\ state_' = kDecodeFinished
               /\ out' = <<DecodeCb("kOk", CreateEOSBuffer)>>
          ELSE /\ state_' = kIdle
               /\ out' = <<DecodeCb("kNotEnoughData", NullFrame)>>
    ]_vars

C14_Witness ==
  /\ op.name = "DeliverFrame" /\ op.status = "kNeedMoreData" /\ op.ok
  /\ op.buffer.kind = "eos"
  /\ state_ = kDecodeFinished /\ ~decode_cb_
  /\ out = <<DecodeCb("kOk", CreateEOSBuffer)>>
  /\ fired["decode"] = 1 /\ ~stop_called

\* C15: a Decode call made in kDecodeFinished, whatever its buffer, completes at
\* once with kOk and an end-of-stream frame, submits nothing to the decryptor and
\* leaves the decoder, kDecodeFinished included, as it was.
C15_DecodeFinishedAnswersEOS ==
  [][(op'.name = "Decode" /\ state_ = kDecodeFinished) =>
       /\ ~crashed'
       /\ out' = <<DecodeCb("kOk", CreateEOSBuffer)>>
       /\ state_' = kDecodeFinished
       /\ UNCHANGED <<progVars, envVars>>
    ]_vars

C15_Witness ==
  /\ op.name = "Decode" /\ op.ok /\ op.buffer.kind = "data"
  /\ state_ = kDecodeFinished
  /\ out = <<DecodeCb("kOk", CreateEOSBuffer)>>
  /\ decrypt_reqs = <<>> /\ ~decode_cb_ /\ ~stop_called

\* C16: every step that enters kDecodeFinished is the handling of the decryptor's
\* response to an end-of-stream buffer.
C16_DecodeFinishedOnlyByEOS ==
  [][(state_ # kDecodeFinished /\ state_' = kDecodeFinished) =>
       (op'.name = "DeliverFrame" /\ op'.buffer.kind = "eos")]_vars

\* kDecodeFinished entered by the kError response to a buffer that carries data.
C16_Witness ==
  /\ state_ = kDecodeFinished
  /\ op.name = "DeliverFrame" /\ op.status = "kError" /\ op.buffer.kind = "data"
  /\ ~crashed /\ ~stop_called

\* The ids of a sequence of frames, in order.
Ids(frames) == [i \in DOMAIN frames |-> frames[i].id]

\* One of events hands frame to the caller.
Hands(events, frame) ==
  \E i \in DOMAIN events :
    /\ events[i].ev \in {"decode_cb", "output"}
    /\ events[i].frame = frame

C18_QueueEmptyWhileDecoding ==
  [][/\ state_' \in {kPendingDecode, kWaitingForKey, kDecodeFinished} =>
          queued_audio_frames_' = <<>>
     /\ Submits(out') => queued_audio_frames_' = <<>>
     /\ op'.name = "DeliverFrame" => (queued_audio_frames_ = <<>> /\ ~crashed')
    ]_vars

\* A request submitted after frames were delivered and a Reset or a
\* re-Initialize has completed since.
C18_Witness ==
  /\ op.name = "Decode" /\ Submits(out) /\ state_ = kPendingDecode
  /\ queued_audio_frames_ = <<>>
  /\ Cardinality(delivered) >= 2
  /\ base_cleared /\ ~stop_called

\* Every decoded frame the step hands to the caller carries a timestamp that is
\* not below the timestamp of the frame handed over last.
DeliversInTimestampOrder ==
  \A t \in DeliveredTimestamps(out') : last_delivered_timestamp <= t

\* C19 as stated: over every sequence of operations, Reset included, the
\* timestamps of the delivered frames never decrease.
C19_Original == [][DeliversInTimestampOrder]_vars

\* C19: as long as no Reset and no re-Initialize has completed since the first
\* frame was delivered, the timestamps of the delivered frames never decrease.
C19_TimestampMonotonicity == [][~base_cleared' => DeliversInTimestampOrder]_vars

C19_Witness ==
  /\ ~base_cleared /\ ~stop_called /\ ~crashed
  /\ op.name = "DeliverFrame" /\ op.status = "kSuccess"
  /\ delivered = {1, 2, 3} /\ DeliveredIds(out) = {3}
  /\ last_delivered_timestamp > 2000
  /\ fired["reset"] = 0

\* The number of sample frames in a sequence of decoded frames.
RECURSIVE TotalFrameCount(_)
TotalFrameCount(frames) ==
  IF frames = <<>> THEN 0
  ELSE Head(frames).frame_count + TotalFrameCount(Tail(frames))

\* The time, in whole microseconds, that n sample frames last at rate Hz.
Microseconds(n, rate) == (n * 1000000) \div rate

\* d microseconds differ from the exact length of n sample frames at rate Hz by
\* less than one microsecond.
WithinOneMicrosecond(d, n, rate) ==
  /\ d * rate > n * 1000000 - rate
  /\ d * rate < n * 1000000 + rate

\* C20: a kSuccess response handled while no Reset is pending stamps its
\* frames, first frame to last, from the base and the running total of sample
\* frames reconstructed since the base was last set: timestamp = base + the
\* time of the sample frames before it, duration = the time of its own sample
\* frames (to the microsecond), each timestamp = the previous timestamp + the
\* previous duration; the running total grows by the response's sample frames
\* and otherwise changes only by being set back to zero with the base, so the
\* chain continues across responses, kNeedMoreData responses included.
C20_GapFreeReconstruction ==
  [][/\ (op'.name = "DeliverFrame" /\ op'.status = "kSuccess" /\ ~reset_cb_) =>
          LET h == timestamp_helper_
              stamped == <<out'[1].frame>> \o queued_audio_frames_'
              before(i) == h.frame_count + TotalFrameCount(SubSeq(op'.frames, 1, i - 1))
          IN
          /\ Len(stamped) = Len(op'.frames)
          /\ \A i \in DOMAIN stamped :
               /\ stamped[i].frame_count = op'.frames[i].frame_count
               /\ stamped[i].timestamp = h.base + Microseconds(before(i), h.rate)
               /\ WithinOneMicrosecond(stamped[i].duration, stamped[i].frame_count,
                                       h.rate)
               /\ stamped[i].timestamp + stamped[i].duration
                    = h.base + Microseconds(before(i + 1), h.rate)
               /\ i > 1 => stamped[i].timestamp
                             = stamped[i - 1].timestamp + stamped[i - 1].duration
          /\ timestamp_helper_' =
               [h EXCEPT !.frame_count = before(Len(stamped) + 1)]
     /\ (timestamp_helper_' # timestamp_helper_) =>
          \/ op'.name = "DeliverFrame" /\ op'.status = "kSuccess" /\ ~reset_cb_
          \/ timestamp_helper_'.frame_count = 0
    ]_vars

\* A response of two frames stamped after an earlier frame of the same seeding.
C20_Witness ==
  /\ op.name = "DeliverFrame" /\ op.status = "kSuccess" /\ Len(op.frames) = 2
  /\ timestamp_helper_.base = 2000 /\ timestamp_helper_.frame_count = 3 * 441
  /\ out[1].frame.timestamp = 2000 + 9187 /\ out[1].frame.duration = 9188
  /\ Len(queued_audio_frames_) = 1
  /\ queued_audio_frames_[1].timestamp = 2000 + 18375
  /\ queued_audio_frames_[1].duration = 9187
  /\ ~base_cleared /\ ~stop_called

\* The responses that differ from frames only in the timestamps the decryptor
\* attached to the frames.
Retimed(frames) ==
  {[i \in DOMAIN frames |-> [frames[i] EXCEPT !.timestamp = ts[i]]] :
     ts \in [DOMAIN frames -> FrameTimestamps]}

\* The buffers that differ from buffer only in the timestamp.
RetimedBuffers(buffer) == {b \in Buffers : b.kind = buffer.kind}

\* C21: the frames a kSuccess response puts out, their timestamps and durations,
\* the timestamp helper, the result and the next state are the same for every
\* response that differs only in the timestamps the decryptor attached; a Decode
\* submitted while the base is seeded leaves the helper as it is whatever the
\* timestamp of its buffer, and the buffer is passed on unchanged.
C21_TimestampIndependence ==
  [][/\ (op'.name = "DeliverFrame" /\ op'.status = "kSuccess" /\ ~reset_cb_) =>
          /\ \A other \in Retimed(op'.frames) :
               /\ EnqueueFrames(other, timestamp_helper_)
                    = <<out'[1].frame>> \o queued_audio_frames_'
               /\ HelperAfterEnqueue(other, timestamp_helper_) = timestamp_helper_'
          /\ state_' = kIdle
          /\ Len(out') = 1 /\ out'[1].ev = "decode_cb" /\ out'[1].status = "kOk"
     /\ (op'.name = "Decode" /\ Submits(out')
           /\ base_timestamp(timestamp_helper_) # kNoTimestamp) =>
          /\ \A other \in RetimedBuffers(op'.buffer) :
               SeedTimestamp(timestamp_helper_, other) = timestamp_helper_'
          /\ state_' = kPendingDecode
          /\ out' = <<CallDecryptAndDecode(op'.buffer)>>
          /\ pending_buffer_to_decode_' = op'.buffer
    ]_vars

\* A frame the decryptor stamped 500000, more than 100 ms off, delivered with the
\* reconstructed timestamp; its buffer, stamped 0, did not seed the base.
C21_Witness ==
  /\ op.name = "DeliverFrame" /\ op.status = "kSuccess" /\ op.ok
  /\ op.buffer = [kind |-> "data", timestamp |-> 0]
  /\ base_timestamp(timestamp_helper_) = 2000
  /\ op.frames[1].timestamp = 500000
  /\ out[1].frame.timestamp = 2000 + 9187
  /\ IsOutOfSync(out[1].frame.timestamp, op.frames[1].timestamp)
  /\ ~stop_called

\* The base changes only by being seeded or cleared: a Decode that goes to the
\* decryptor seeds an unseeded base from a buffer that is not end-of-stream and
\* leaves a seeded base alone; a completed Reset clears the base.
BaseSeededOnceAndClearedByReset ==
  /\ (op'.name = "Decode" /\ Submits(out')) =>
       base_timestamp(timestamp_helper_') =
         (IF base_timestamp(timestamp_helper_) = kNoTimestamp /\ op'.buffer.kind # "eos"
          THEN op'.buffer.timestamp
          ELSE base_timestamp(timestamp_helper_))
  /\ (op'.name \in {"Reset", "DeliverFrame"} /\ Count(out', "reset_cb") > 0) =>
       base_timestamp(timestamp_helper_') = kNoTimestamp
  /\ base_timestamp(timestamp_helper_') # base_timestamp(timestamp_helper_) =>
       \/ op'.name = "Decode" /\ Submits(out') /\ op'.buffer.kind # "eos"
            /\ base_timestamp(timestamp_helper_) = kNoTimestamp
       \/ base_timestamp(timestamp_helper_') = kNoTimestamp

\* A kSuccess response that is the first to be reconstructed since the base was
\* set or cleared.
FirstReconstruction ==
  /\ op'.name = "DeliverFrame" /\ op'.status = "kSuccess" /\ ~reset_cb_
  /\ timestamp_helper_.frame_count = 0

C23_ConfigRejection ==
  [][(op'.name = "Initialize" /\ ~crashed'
        /\ (~op'.config.valid \/ ~op'.config.encrypted)) =>
       /\ out' = <<InitCb(IF ~op'.config.valid THEN "PIPELINE_ERROR_DECODE"
                          ELSE "DECODER_ERROR_NOT_SUPPORTED")>>
       /\ state_' = state_ /\ config_' = config_
       /\ UNCHANGED <<progVars, envVars>>
    ]_vars

\* A config that is not encrypted rejected by an initialized decoder.
C23_Witness ==
  /\ op.name = "Initialize" /\ op.ok
  /\ op.config.valid /\ ~op.config.encrypted
  /\ out = <<InitCb("DECODER_ERROR_NOT_SUPPORTED")>>
  /\ state_ = kIdle /\ config_.encrypted /\ ~init_cb_
  /\ init_reqs = <<>> /\ ready_wait = <<>>
  /\ ~stop_called

\* C24: with at most one Initialize outstanding, the completion of the latest
\* Initialize has run at most once, and it has not run yet exactly while
\* init_cb_ is held; a config rejection, a decryptor-ready notification without
\* a decryptor, the decryptor's answer to InitializeAudioDecoder (success or
\* failure) and Stop each run a held init_cb_ once and let go of it.
C24_InitCompletesOnce ==
  [][/\ fired'["init"] <= 1
     /\ init_cb_' <=> ("init" \in issued' /\ fired'["init"] = 0)
     /\ Count(out', "init_cb") <= 1
     /\ (Count(out', "init_cb") = 1) => ~init_cb_'
     /\ (/\ ~crashed'
         /\ \/ op'.name = "Initialize"
                 /\ (~op'.config.valid \/ ~op'.config.encrypted)
            \/ op'.name = "SetDecryptor" /\ ~op'.arg
            \/ op'.name = "FinishInitialization"
            \/ op'.name = "Stop" /\ init_cb_) =>
          Count(out', "init_cb") = 1
    ]_vars

\* An Initialize completed by Stop while the decryptor-ready wait was pending;
\* the notification that comes later is dropped.
C24_Witness ==
  /\ op.name = "LateSetDecryptor"
  /\ stop_called /\ state_ = kStopped
  /\ "init" \in issued /\ fired["init"] = 1 /\ ~init_cb_

\* An Initialize with a valid, encrypted config that returns.
InitializeProceeds ==
  /\ op'.name = "Initialize" /\ ~crashed'
  /\ op'.config.valid /\ op'.config.encrypted

\* C25: an Initialize that proceeds in kUninitialized stores the config, moves to
\* kDecryptorRequested and registers the decryptor-ready wait, without calling
\* the decryptor; one that proceeds in any other state registers no wait but
\* calls DeinitializeDecoder and InitializeAudioDecoder on the decryptor it
\* already has and moves to kPendingDecoderInit; from there a successful answer
\* leads to kIdle.
C25_FirstAndLaterInitialize ==
  [][/\ (InitializeProceeds /\ state_ = kUninitialized) =>
          /\ state_' = kDecryptorRequested
          /\ out' = <<Ev("SetDecryptorReadyCB")>>
          /\ Len(ready_wait') = Len(ready_wait) + 1
          /\ UNCHANGED <<init_reqs, decrypt_reqs, decryptor_>>
          /\ init_cb_' /\ config_' = op'.config
     /\ (InitializeProceeds /\ state_ # kUninitialized) =>
          /\ state_' = kPendingDecoderInit
          /\ out' = <<Ev("DeinitializeDecoder"), Ev("InitializeAudioDecoder")>>
          /\ decryptor_ /\ decryptor_'
          /\ Len(init_reqs') = Len(init_reqs) + 1
          /\ UNCHANGED <<ready_wait, decrypt_reqs>>
          /\ init_cb_' /\ config_' = op'.config
     /\ (op'.name = "FinishInitialization" /\ op'.arg /\ ~crashed') =>
          /\ state_ = kPendingDecoderInit /\ state_' = kIdle
          /\ out' = <<Ev("RegisterNewKeyCB"), InitCb("PIPELINE_OK")>>
    ]_vars

\* A decoder that has delivered a frame is initialized again.
C25_Witness ==
  /\ op.name = "Initialize" /\ op.ok
  /\ state_ = kPendingDecoderInit
  /\ out = <<Ev("DeinitializeDecoder"), Ev("InitializeAudioDecoder")>>
  /\ delivered # {} /\ Len(init_reqs) = 1 /\ ready_wait = <<>>
  /\ ~stop_called

\* SetDecryptor without a decryptor, or FinishInitialization without success.
InitializationFails ==
  /\ ~crashed'
  /\ \/ op'.name = "SetDecryptor" /\ ~op'.arg
     \/ op'.name = "FinishInitialization" /\ ~op'.arg

\* C26: when SetDecryptor receives no decryptor or FinishInitialization receives
\* a failure, init_cb_ runs with DECODER_ERROR_NOT_SUPPORTED and state_ becomes
\* kStopped; and while the latest answer to an initialization is such a failure
\* and Stop has not been called since (init_failed), no step enters kIdle or
\* calls DecryptAndDecodeAudio.
C26_InitFailureIsTerminal ==
  [][/\ InitializationFails =>
          /\ out' = <<InitCb("DECODER_ERROR_NOT_SUPPORTED")>>
          /\ state_' = kStopped /\ ~init_cb_'
     /\ init_failed => (state_' # kIdle /\ ~Submits(out'))
    ]_vars

\* After a failed decoder initialization the stage is being initialized again,
\* on the decryptor it kept.
C26_Witness ==
  /\ init_failed /\ ~crashed /\ ~stop_called
  /\ op.name = "Initialize" /\ state_ = kPendingDecoderInit /\ decryptor_
  /\ Len(init_reqs) = 1

\* The transitions of the state graph of spec section 4.1, apart from those
\* into kStopped.
SpecifiedEdges ==
  {<<kUninitialized, kDecryptorRequested>>,
   <<kDecryptorRequested, kPendingDecoderInit>>,
   <<kPendingDecoderInit, kIdle>>,
   <<kIdle, kPendingDecode>>,
   <<kPendingDecode, kIdle>>,
   <<kPendingDecode, kDecodeFinished>>,
   <<kPendingDecode, kWaitingForKey>>,
   <<kWaitingForKey, kPendingDecode>>}

\* The transitions Reset and a repeated Initialize add to the graph.
ResetEdges == {<<kDecodeFinished, kIdle>>, <<kWaitingForKey, kIdle>>}

ReinitializeEdges ==
  {<<kIdle, kPendingDecoderInit>>,
   <<kDecodeFinished, kPendingDecoderInit>>,
   <<kStopped, kPendingDecoderInit>>}

C28_ResetPreconditions ==
  [][op'.name = "Reset" =>
       /\ ~crashed' <=>
            /\ state_ \in {kIdle, kPendingDecode, kWaitingForKey, kDecodeFinished}
            /\ ~init_cb_
            /\ ~reset_cb_
       /\ ~crashed' => (out'[1] = Ev("ResetDecoder") /\ "reset" \in issued')
       /\ crashed' => (out' = <<>> /\ ~op'.ok /\ UNCHANGED <<progVars, envVars, fired>>)
    ]_vars

\* A second Reset was called while the first was still deferred.
C28_Witness ==
  /\ op.name = "Reset" /\ ~op.ok /\ crashed
  /\ state_ = kPendingDecode /\ reset_cb_ /\ decode_cb_
  /\ fired["reset"] = 0

\* The callbacks a handler ran, in the order it ran them.
CallbackOrder(events) ==
  LET cbs == SelectSeq(events, LAMBDA e :
                         e.ev \in {"init_cb", "decode_cb", "reset_cb", "stop_cb"})
  IN  [i \in DOMAIN cbs |->
         CHOOSE k \in Operations \cup {"stop"} : cbs[i].ev = k \o "_cb"]

\* The operation a handler that returned has issued, if any.
IssuedBy(o) ==
  IF ~o.ok THEN <<>>
  ELSE IF o.name = "Initialize" THEN <<"init">>
  ELSE IF o.name = "Decode" THEN <<"decode">>
  ELSE IF o.name = "Reset" THEN <<"reset">>
  ELSE IF o.name = "Stop" THEN <<"stop">>
  ELSE <<>>

IsPrefix(s, t) == Len(s) <= Len(t) /\ SubSeq(t, 1, Len(s)) = s

DecryptorAnswers ==
  \/ \E status \in DecryptorStatus \ {"kSuccess"} : DeliverFrame(status, <<>>)
  \/ \E shapes \in DecodedFrames : DeliverFrame("kSuccess", MakeFrames(shapes))

\* The decryptor answers with something other than kNoKey.
DecryptorAnswersWithKey ==
  \/ \E status \in DecryptorStatus \ {"kSuccess", "kNoKey"} : DeliverFrame(status, <<>>)
  \/ \E shapes \in DecodedFrames : DeliverFrame("kSuccess", MakeFrames(shapes))

\* A key arrives while the decoder waits for one.
KeyArrivesWhileWaiting == state_ = kWaitingForKey /\ OnKeyAdded

LiveSpec ==
  /\ Init /\ [][Next]_vars
  /\ WF_vars(DecryptorAnswers)
  /\ WF_vars(KeyArrivesWhileWaiting)
  /\ SF_vars(DecryptorAnswersWithKey)

\* A Decode whose callback is owed is either with the decryptor or waits, its
\* buffer retained, for the key signal the decoder has subscribed to.
DecodeCanProgress ==
  \/ /\ state_ = kPendingDecode
     /\ Len(decrypt_reqs) = 1 /\ decrypt_reqs[1].live
  \/ /\ state_ = kWaitingForKey
     /\ pending_buffer_to_decode_ # NullBuffer /\ new_key_cb = "live"

\* C30: if the decryptor answers every request, a key arrives whenever the
\* decoder waits for one, and the decryptor does not answer kNoKey for ever,
\* then every Decode that set decode_cb_ has it run (or the process has stopped
\* on a failed assertion), and it runs once: decode_cb_ is cleared only by a step
\* that runs it exactly once.  In kWaitingForKey no step other than OnKeyAdded,
\* Reset and Stop runs the callback or leaves the state; while the callback is
\* owed, the request is with the decryptor or the decoder waits for a key.
C30_DecodeLiveness ==
  /\ decode_cb_ ~> (~decode_cb_ \/ crashed)
  /\ [][/\ decode_cb_' => DecodeCanProgress'
        /\ (decode_cb_ /\ ~decode_cb_') => Count(out', "decode_cb") = 1
        /\ Count(out', "decode_cb") <= 1
        /\ fired'["decode"] <= 1
        /\ StaysWaitingForKey]_vars

\* A Decode that stalled for a key has completed with a frame.
C30_Witness ==
  /\ op.name = "DeliverFrame" /\ op.status = "kSuccess" /\ op.ok
  /\ decode_hist = "resumed" /\ ~decode_cb_ /\ fired["decode"] = 1
  /\ Count(out, "decode_cb") = 1 /\ state_ = kIdle
  /\ ~stop_called /\ ~crashed

\* C31: key_added_while_decode_pending_ becomes true only in OnKeyAdded handled
\* in kPendingDecode; every DeliverFrame that returns leaves it false, whatever
\* the status and whether or not a Reset is pending; a kNoKey response (no
\* Reset pending) resubmits once if the flag was set and otherwise, also right
\* after an automatic retry, moves to kWaitingForKey without a request.
C31_RetryFlag ==
  [][/\ (key_added_while_decode_pending_' /\ ~key_added_while_decode_pending_) =>
          (op'.name = "OnKeyAdded" /\ state_ = kPendingDecode /\ state_' = kPendingDecode)
     /\ (op'.name = "DeliverFrame" /\ ~crashed') => ~key_added_while_decode_pending_'
     /\ (op'.name = "DeliverFrame" /\ op'.status = "kNoKey" /\ ~crashed'
           /\ ~reset_cb_) =>
          IF key_added_while_decode_pending_
          THEN Count(out', "DecryptAndDecodeAudio") = 1 /\ state_' = kPendingDecode
          ELSE ~Submits(out') /\ state_' = kWaitingForKey /\ decrypt_reqs' = <<>>
     /\ (op'.name = "DeliverFrame" /\ op'.status = "kNoKey" /\ ~crashed'
           /\ decode_hist = "retried" /\ ~key_added_while_decode_pending_
           /\ ~reset_cb_) => state_' = kWaitingForKey
    ]_vars

\* After an automatic retry has consumed the flag, a new key signal latches it
\* again while the retried request is with the decryptor.
C31_Witness ==
  /\ op.name = "OnKeyAdded" /\ op.ok /\ out = <<>>
  /\ key_added_while_decode_pending_ /\ state_ = kPendingDecode
  /\ decode_hist = "retried" /\ Len(decrypt_reqs) = 1
  /\ ~reset_cb_ /\ ~stop_called

\* C32: in every state reached, pending_buffer_to_decode_ is held and
\* decode_cb_ is set if state_ is kPendingDecode or kWaitingForKey, and in
\* every other state the buffer is released and decode_cb_ is clear.
C32_PendingRequest ==
  IF state_ \in {kPendingDecode, kWaitingForKey}
  THEN pending_buffer_to_decode_ # NullBuffer /\ decode_cb_
  ELSE pending_buffer_to_decode_ = NullBuffer /\ ~decode_cb_

\* The end-of-stream buffer has been answered: the request is gone.
C32_Witness ==
  /\ op.name = "DeliverFrame" /\ op.status = "kNeedMoreData" /\ op.ok
  /\ state_ = kDecodeFinished /\ fired["decode"] = 1
  /\ pending_buffer_to_decode_ = NullBuffer /\ ~decode_cb_
  /\ decode_hist = "resumed" /\ ~stop_called

\* C33: every buffer handed to DecryptAndDecodeAudio, by Decode, by the retry
\* inside DeliverFrame or by OnKeyAdded, is the buffer the caller passed to the
\* Decode whose callback is owed, and so is the buffer of every request the
\* decryptor holds for this decoder.
C33_SameBufferResubmitted ==
  [][/\ \A i \in DOMAIN out' :
          out'[i].ev = "DecryptAndDecodeAudio" =>
            /\ out'[i].buffer = decode_buffer' /\ decode_buffer' # NullBuffer
            /\ op'.name # "Decode" => decode_buffer' = decode_buffer
     /\ \A i \in DOMAIN decrypt_reqs' :
          decrypt_reqs'[i].live => decrypt_reqs'[i].buffer = decode_buffer'
    ]_vars

\* A data buffer that stalled for a key has been resubmitted by the key signal.
C33_Witness ==
  /\ op.name = "OnKeyAdded" /\ op.ok
  /\ out = <<CallDecryptAndDecode(decode_buffer)>>
  /\ decode_buffer.kind = "data" /\ decode_buffer.timestamp = 2000
  /\ decrypt_reqs = <<[buffer |-> decode_buffer, live |-> TRUE]>>
  /\ state_ = kPendingDecode /\ ~stop_called

\* C34: every Reset that returns calls ResetDecoder exactly once and as the
\* first thing it does, before any decode_cb_ or reset_cb_ it runs, whether it
\* completes at once or is deferred; no other handler calls ResetDecoder, so the
\* completion of a deferred Reset does not call it again.
C34_ResetDecoderOnce ==
  [][/\ (op'.name = "Reset" /\ ~crashed') =>
          /\ state_ \in {kIdle, kPendingDecode, kWaitingForKey, kDecodeFinished}
          /\ Count(out', "ResetDecoder") = 1
          /\ out'[1] = Ev("ResetDecoder")
     /\ op'.name # "Reset" => Count(out', "ResetDecoder") = 0
    ]_vars

\* A Reset deferred behind a pending Decode has called ResetDecoder and
\* nothing else.
C34_Witness ==
  /\ op.name = "Reset" /\ op.ok /\ state_ = kPendingDecode
  /\ out = <<Ev("ResetDecoder")>>
  /\ reset_cb_ /\ decode_cb_ /\ outstanding = <<"decode", "reset">>

\* C35: whenever reset_cb_ is run, queued_audio_frames_ is empty afterwards, and
\* a Decode accepted next hands over no frame left from before.
C35_QueueEmptyAfterReset ==
  [][/\ Count(out', "reset_cb") > 0 => queued_audio_frames_' = <<>>
     /\ (op.name = "Reset" /\ Count(out, "reset_cb") > 0 /\ op'.name = "Decode") =>
          DeliveredIds(out') = {}
    ]_vars

\* Reset has completed in kIdle with a decoded frame still queued.
C35_Witness ==
  /\ op.name = "Reset" /\ op.ok /\ state_ = kIdle
  /\ out = <<Ev("ResetDecoder"), ResetCb>>
  /\ queued_audio_frames_ # <<>> /\ ~reset_cb_
  /\ base_timestamp(timestamp_helper_) = kNoTimestamp
  /\ ~stop_called

\* C36: whenever DeliverFrame passes the frames of a kSuccess response to
\* EnqueueFrames, the base timestamp of timestamp_helper_ is not kNoTimestamp.
C36_BaseSeededAtReconstruction ==
  [][(op'.name = "DeliverFrame" /\ op'.status = "kSuccess" /\ ~crashed'
        /\ ~reset_cb_) =>
       base_timestamp(timestamp_helper_) # kNoTimestamp]_vars

\* The first buffer was end-of-stream and was answered with a frame: the frame
\* is stamped from a base that was never seeded.
C36_Witness ==
  /\ op.name = "DeliverFrame" /\ op.status = "kSuccess" /\ op.ok
  /\ op.buffer = EOSBuffer
  /\ base_timestamp(timestamp_helper_) = kNoTimestamp
  /\ Count(out, "decode_cb") = 1 /\ out[1].frame.timestamp = kNoTimestamp
  /\ delivered = {1} /\ ~base_cleared /\ ~stop_called

\* C37: key_added_while_decode_pending_ is false in every reachable state whose
\* state_ is neither kPendingDecode nor kStopped, and it is false when a Decode
\* has just been accepted, so a new request never starts with the latch set.
C37_RetryFlagScope ==
  /\ state_ \notin {kPendingDecode, kStopped} => ~key_added_while_decode_pending_
  /\ (op.name = "Decode" /\ op.ok) => ~key_added_while_decode_pending_

\* After a first frame was delivered, with the key subscription live, the next
\* Decode has been accepted and starts without the latch.
C37_Witness ==
  /\ op.name = "Decode" /\ op.ok /\ state_ = kPendingDecode
  /\ ~key_added_while_decode_pending_
  /\ decode_hist = "submitted" /\ fired["decode"] = 0
  /\ delivered = {1} /\ new_key_cb = "live" /\ ~stop_called

\* C38: a key-arrival signal handled in a state other than kPendingDecode and
\* kWaitingForKey, or dropped because Stop has invalidated its callback, changes
\* no field of the decoder (state_, the retry flag, the pending buffer, the
\* queue, the callbacks), calls nothing, runs no callback and breaks no
\* assertion.
C38_KeySignalElsewhere ==
  [][(op'.name \in {"OnKeyAdded", "LateOnKeyAdded"}
        /\ state_ \notin {kPendingDecode, kWaitingForKey}) =>
       /\ UNCHANGED progVars
       /\ UNCHANGED <<ready_wait, init_reqs, decrypt_reqs>>
       /\ out' = <<>> /\ ~crashed'
    ]_vars

\* The key arrived after the stream had finished.
C38_Witness ==
  /\ op.name = "OnKeyAdded" /\ op.ok /\ out = <<>>
  /\ state_ = kDecodeFinished /\ ~key_added_while_decode_pending_
  /\ pending_buffer_to_decode_ = NullBuffer /\ decrypt_reqs = <<>>
  /\ new_key_cb = "live" /\ ~stop_called

\* C39: in every state reached, reset_cb_ is set only if state_ is
\* kPendingDecode and decode_cb_ is set too; a Reset that returns in kIdle,
\* kWaitingForKey or kDecodeFinished runs reset_cb_ before it returns.
C39_ResetOutstanding ==
  [][/\ reset_cb_' => (state_' = kPendingDecode /\ decode_cb_')
     /\ (op'.name = "Reset" /\ ~crashed'
           /\ state_ \in {kIdle, kWaitingForKey, kDecodeFinished}) =>
          /\ Count(out', "reset_cb") = 1 /\ ~reset_cb_'
          /\ fired'["reset"] = 1 /\ state_' = kIdle
     /\ (op'.name = "Reset" /\ ~crashed' /\ state_ = kPendingDecode) =>
          (reset_cb_' /\ Count(out', "reset_cb") = 0)
    ]_vars

\* A Reset is pending behind a Decode when a key arrives.
C39_Witness ==
  /\ reset_cb_ /\ decode_cb_ /\ state_ = kPendingDecode
  /\ op.name = "OnKeyAdded" /\ key_added_while_decode_pending_
  /\ fired["reset"] = 0 /\ "reset" \in issued /\ ~crashed

====
